---- MODULE Spec2Model ----
(***************************************************************************)
(* A model of TracSatController.Core: the subsystem lifecycle              *)
(* (Foundation.py: SubsystemFoundation, ContinuousSubsystem,               *)
(* SingleExecutionSubsystem; Utility.py: Subsystem) and the named-target   *)
(* registry (Requires / Target), with one atomic step per shared read or   *)
(* write of a Python thread.                                               *)
(***************************************************************************)
EXTENDS Integers, Sequences, FiniteSets, TLC

\* ------------------------------------------------------------------ bounds
\* Longest _target_registry list the model lets register() build.
MaxRegistry == 2
\* Hook-call counters saturate at this value.
MaxCount == 2

\* ----------------------------------------------------------------- threads
Worker == "w"
Ctl == {"c1"}
Users == {"u1", "u2", "u3"}
Threads == {Worker} \cup Ctl \cup Users

\* The gate names the code uses: subsystem_name + ".halt" and Test.py's gate.
HaltGate == "TestSubsystem.halt"
NetGate == "network.start"

ThreadSeq == <<"w", "c1", "u1", "u2", "u3">>

Kinds == {"continuous", "single", "utility"}

VARIABLES
  target_registry,   \* Requires._target_registry: a list of Target objects
  target_lock,       \* the Target objects whose Event target_lock is set
  call,              \* each thread's Requires call in progress (frame locals)
  pc,                \* each thread's position in the subsystem code
  kind,              \* which subsystem class the instance is
  init_waits,        \* initialize() waits on NetGate (Test.py) or not
  init_returns,      \* what the concrete initialize() returns
  is_shutdown,       \* self._is_shutdown
  is_halted,         \* self._is_halted
  subsystem_startup_did_occur,
  worker_thread,     \* self._worker_thread: "None", "created" or "started"
  halt_fulfilled,    \* local of ContinuousSubsystem._worker
  wfail,             \* the exception that ended the worker, or "none"
  reach_done,        \* history: names for which Target.reach() has run
  owed,              \* history: threads blocked in wait(n) when reach(n) ran
  quiet,             \* history: halt() has returned and resume() not yet called
  shutdown_calls,    \* history: saturating count of callers' shutdown() calls
  cnt,               \* history: saturating counts of hook invocations
  wlog,              \* history: hooks run on the worker, repeats collapsed
  launched,          \* history: number of worker threads started
  acked,             \* history: halt() has returned and no resume() finished since
  pre                \* history: what each context's Requires call found the
                     \* registry to hold for its name when it was issued

regVars == <<target_registry, target_lock, reach_done, owed>>
subVars == <<kind, init_waits, init_returns, is_shutdown, is_halted,
             subsystem_startup_did_occur, worker_thread, halt_fulfilled, wfail>>
histVars == <<quiet, shutdown_calls, cnt, wlog, launched, acked, pre>>
vars == <<target_registry, target_lock, call, pc, kind, init_waits,
          init_returns, is_shutdown, is_halted, subsystem_startup_did_occur,
          worker_thread, halt_fulfilled, wfail, reach_done, owed, quiet,
          shutdown_calls, cnt, wlog, launched, acked, pre>>

\* ------------------------------------------------------------ the registry
NoCall == [op |-> "none", name |-> "", wait |-> FALSE, i |-> 0, cur |-> 0,
           st |-> "none", ret |-> "none"]

NewCall(op, name, wait) ==
  [op |-> op, name |-> name, wait |-> wait, i |-> 0, cur |-> 0,
   st |-> "iter", ret |-> "none"]

Min(S) == CHOOSE x \in S : \A y \in S : x <= y

RegistryIds(reg) == {reg[k].id : k \in 1..Len(reg)}

\* The Target objects some list or frame still refers to.
Live(reg, calls) ==
  RegistryIds(reg) \cup ({calls[t].cur : t \in Threads} \ {0})

\* Objects matter by identity alone, so they are numbered in one fixed order:
\* those in the list by position, then those only a frame still holds, by
\* thread. A Target nothing refers to is gone, and its Event with it.
Canon(reg, locks, calls) ==
  LET held(k) == calls[ThreadSeq[k]].cur
      First(k) == /\ held(k) \notin RegistryIds(reg) \cup {0}
                  /\ \A j \in 1..(k - 1) : held(j) # held(k)
      firsts == SelectSeq([k \in 1..Len(ThreadSeq) |-> k], First)
      order == [k \in 1..Len(reg) |-> reg[k].id]
                 \o [j \in 1..Len(firsts) |-> held(firsts[j])]
      new(id) == IF id = 0 THEN 0
                 ELSE CHOOSE k \in 1..Len(order) : order[k] = id
  IN  [reg |-> [k \in 1..Len(reg) |-> [reg[k] EXCEPT !.id = k]],
       locks |-> {new(id) : id \in locks \cap Live(reg, calls)},
       calls |-> [t \in Threads |-> [calls[t] EXCEPT !.cur = new(@)]]]

\* The registry, the Events and the frames after a step.
Commit(reg, locks, calls) ==
  LET n == Canon(reg, locks, calls) IN
  /\ target_registry' = n.reg
  /\ target_lock' = n.locks
  /\ call' = n.calls

\* Target(target_name): a fresh object with an unset Event.
Target(target_name) ==
  [id |-> 1 + Cardinality(Live(target_registry, call)),
   target_name |-> target_name]

\* Target.is_reached
is_reached(id) == id \in target_lock

\* list.remove(x): drops the first element that is x.
RemoveFirst(reg, id) ==
  LET k == Min({j \in 1..Len(reg) : reg[j].id = id})
  IN  SubSeq(reg, 1, k - 1) \o SubSeq(reg, k + 1, Len(reg))

Returned(c, value) == [c EXCEPT !.st = "ret", !.ret = value, !.cur = 0]

\* Requires.register: append a new Target (list.append is one step).
Register(name) ==
  /\ Len(target_registry) < MaxRegistry
  /\ Commit(Append(target_registry, Target(name)), target_lock, call)
  /\ UNCHANGED <<reach_done, owed>>

RegIter_no_error(t) ==
  LET c == call[t] IN
  /\ c.st = "iter"
  /\ IF c.i < Len(target_registry)
     THEN LET tgt == target_registry[c.i + 1] IN
          call' = [call EXCEPT ![t] =
                    IF tgt.target_name = c.name
                    THEN [c EXCEPT !.i = c.i + 1, !.cur = tgt.id, !.st = "found"]
                    ELSE [c EXCEPT !.i = c.i + 1]]
     ELSE call' = [call EXCEPT ![t] =
                    IF c.op = "clear_target"
                    THEN Returned(c, "None")
                    ELSE Returned(c, "False")]
  /\ UNCHANGED <<target_registry, target_lock, reach_done, owed>>

\* One turn of "for tgt in cls._target_registry" with the name test: the list
\* iterator keeps an index into the shared list and stops at its current end.
RegIter(t) ==
  LET c == call[t] IN
  /\ c.st = "iter"
  /\ IF c.i < Len(target_registry)
     THEN LET tgt == target_registry[c.i + 1] IN
          call' = [call EXCEPT ![t] =
                    IF tgt.target_name = c.name
                    THEN [c EXCEPT !.i = c.i + 1, !.cur = tgt.id, !.st = "found"]
                    ELSE [c EXCEPT !.i = c.i + 1]]
     ELSE call' = [call EXCEPT ![t] =
                    IF c.op = "clear_target"
                    THEN Returned(c, "None")
                    ELSE Returned(c, "TargetNonExistentError")]
  /\ UNCHANGED <<target_registry, target_lock, reach_done, owed>>

TargetCheck_ignores_wait(t) ==
  LET c == call[t] IN
  /\ c.st = "found" /\ c.op = "target"
  /\ Commit(target_registry, target_lock,
            [call EXCEPT ![t] =
               IF is_reached(c.cur) THEN Returned(c, "True")
               ELSE [c EXCEPT !.st = "blocked"]])
  /\ UNCHANGED <<reach_done, owed>>

\* Requires.target after the name matched: is_reached(), else block or False.
TargetCheck(t) ==
  LET c == call[t] IN
  /\ c.st = "found" /\ c.op = "target"
  /\ Commit(target_registry, target_lock,
            [call EXCEPT ![t] =
               IF is_reached(c.cur) THEN Returned(c, "True")
               ELSE IF c.wait THEN [c EXCEPT !.st = "blocked"]
               ELSE Returned(c, "False")])
  /\ UNCHANGED <<reach_done, owed>>

TargetBlock_nowait(t) ==
  LET c == call[t] IN
  /\ c.st = "blocked"
  /\ Commit(target_registry, target_lock,
            [call EXCEPT ![t] = Returned(c, "True")])
  /\ reach_done' = reach_done
  /\ owed' = owed \ {t}

\* Target.block: Event.wait() returns once the Event is set; then return True.
TargetBlock(t) ==
  LET c == call[t] IN
  /\ c.st = "blocked"
  /\ is_reached(c.cur)
  /\ Commit(target_registry, target_lock,
            [call EXCEPT ![t] = Returned(c, "True")])
  /\ reach_done' = reach_done
  /\ owed' = owed \ {t}

ReachCheck_no_test(t) ==
  LET c == call[t] IN
  /\ c.st = "found" /\ c.op = "reach_target"
  /\ Commit(target_registry, target_lock,
            [call EXCEPT ![t] = [c EXCEPT !.st = "reach"]])
  /\ UNCHANGED <<reach_done, owed>>

\* Requires.reach_target after the name matched: the is_reached() test.
ReachCheck(t) ==
  LET c == call[t] IN
  /\ c.st = "found" /\ c.op = "reach_target"
  /\ Commit(target_registry, target_lock,
            [call EXCEPT ![t] =
               IF is_reached(c.cur)
               THEN Returned(c, "TargetAlreadyReachedError")
               ELSE [c EXCEPT !.st = "reach"]])
  /\ UNCHANGED <<reach_done, owed>>

\* Target.reach: set the Event; reach_target returns True.
ReachSet(t) ==
  LET c == call[t] IN
  /\ c.st = "reach"
  /\ Commit(target_registry, target_lock \cup {c.cur},
            [call EXCEPT ![t] = Returned(c, "True")])
  /\ reach_done' = reach_done \cup {c.name}
  /\ owed' = owed \cup {u \in Threads : call[u].st = "blocked"
                                          /\ call[u].name = c.name}

\* Requires.clear_target after the name matched: list.remove(tgt), then the
\* loop goes on with the iterator's index unchanged.
ClearRemove(t) ==
  LET c == call[t] IN
  /\ c.st = "found" /\ c.op = "clear_target"
  /\ IF c.cur \in RegistryIds(target_registry)
     THEN Commit(RemoveFirst(target_registry, c.cur), target_lock,
                 [call EXCEPT ![t] = [c EXCEPT !.st = "iter", !.cur = 0]])
     ELSE Commit(target_registry, target_lock,
                 [call EXCEPT ![t] = Returned(c, "ValueError")])
  /\ UNCHANGED <<reach_done, owed>>

\* Any step inside a Requires call of thread t.
CallStep(t) ==
  \/ RegIter(t)
  \/ TargetCheck(t)
  \/ TargetBlock(t)
  \/ ReachCheck(t)
  \/ ReachSet(t)
  \/ ClearRemove(t)

\* ------------------------------------------------------- history helpers
Inc(n) == IF n < MaxCount THEN n + 1 ELSE n

Count(hook) == [cnt EXCEPT ![hook] = Inc(cnt[hook])]

\* The worker's hook log; a repeated hook (execute in a loop) is logged once.
Logged(hook) ==
  IF wlog # <<>> /\ wlog[Len(wlog)] = hook THEN wlog ELSE Append(wlog, hook)

Goto(t, where) == pc' = [pc EXCEPT ![t] = where]

\* --------------------------------------------------------------- start()
\* SubsystemFoundation.start / Subsystem.start, line by line.
StartCheck(c) ==
  /\ pc[c] = "start"
  /\ Goto(c, IF subsystem_startup_did_occur THEN "start_false" ELSE "start_init")
  /\ UNCHANGED <<regVars, call, subVars, histVars>>

StartInit(c) ==
  /\ pc[c] = "start_init"
  /\ worker_thread' = "created"
  /\ Goto(c, "start_flag")
  /\ UNCHANGED <<regVars, call, kind, init_waits, init_returns, is_shutdown,
                 is_halted, subsystem_startup_did_occur, halt_fulfilled, wfail,
                 histVars>>

StartFlag_unset(c) ==
  /\ pc[c] = "start_flag"
  /\ Goto(c, "start_run")
  /\ UNCHANGED <<regVars, call, subVars, histVars>>

StartFlag(c) ==
  /\ pc[c] = "start_flag"
  /\ subsystem_startup_did_occur' = TRUE
  /\ Goto(c, "start_run")
  /\ UNCHANGED <<regVars, call, kind, init_waits, init_returns, is_shutdown,
                 is_halted, worker_thread, halt_fulfilled, wfail, histVars>>

\* self._worker_thread.start(): a new thread enters _worker.
StartRun(c) ==
  /\ pc[c] = "start_run"
  /\ worker_thread' = "started"
  /\ pc' = [pc EXCEPT ![c] = "idle", ![Worker] = "init"]
  /\ halt_fulfilled' = FALSE
  /\ wfail' = "none"
  /\ launched' = Inc(launched)
  /\ UNCHANGED <<regVars, call, kind, init_waits, init_returns, is_shutdown,
                 is_halted, subsystem_startup_did_occur, quiet, shutdown_calls,
                 cnt, wlog, acked, pre>>

\* "return False"
StartFalse(c) ==
  /\ pc[c] = "start_false"
  /\ Goto(c, "idle")
  /\ UNCHANGED <<regVars, call, subVars, histVars>>

\* ---------------------------------------------------------- acquire_lock()
\* self._worker_thread.join(): raises unless the thread was started, else
\* returns once the worker has ended.
AcquireLock(c) ==
  /\ pc[c] = "join"
  /\ worker_thread = "started" => pc[Worker] \in {"done", "failed"}
  /\ Goto(c, "idle")
  /\ UNCHANGED <<regVars, call, subVars, histVars>>

\* ------------------------------------------------------------- shutdown()
\* ContinuousSubsystem.shutdown, first line; run by a caller or by the worker.
ShutdownHalted(t) ==
  /\ pc[t] = "sd_halt"
  /\ is_halted' = TRUE
  /\ Goto(t, "sd_on")
  /\ UNCHANGED <<regVars, call, kind, init_waits, init_returns, is_shutdown,
                 subsystem_startup_did_occur, worker_thread, halt_fulfilled,
                 wfail, histVars>>

\* SubsystemFoundation.shutdown: self.on_shutdown()
OnShutdown(t) ==
  /\ pc[t] = "sd_on"
  /\ cnt' = Count("on_shutdown")
  /\ wlog' = IF t = Worker THEN Logged("on_shutdown") ELSE wlog
  /\ Goto(t, "sd_flag")
  /\ UNCHANGED <<regVars, call, subVars, quiet, shutdown_calls, launched,
                 acked, pre>>

\* SubsystemFoundation.shutdown: self._is_shutdown = True
ShutdownFlag(t) ==
  /\ pc[t] = "sd_flag"
  /\ is_shutdown' = TRUE
  /\ Goto(t, IF t = Worker THEN "after" ELSE "idle")
  /\ UNCHANGED <<regVars, call, kind, init_waits, init_returns, is_halted,
                 subsystem_startup_did_occur, worker_thread, halt_fulfilled,
                 wfail, histVars>>

\* Utility.Subsystem.shutdown: both flags, no hook.
UShutdownFlag(c) ==
  /\ pc[c] = "usd_flag"
  /\ is_shutdown' = TRUE
  /\ Goto(c, "usd_halt")
  /\ UNCHANGED <<regVars, call, kind, init_waits, init_returns, is_halted,
                 subsystem_startup_did_occur, worker_thread, halt_fulfilled,
                 wfail, histVars>>

UShutdownHalted(c) ==
  /\ pc[c] = "usd_halt"
  /\ is_halted' = TRUE
  /\ Goto(c, "idle")
  /\ UNCHANGED <<regVars, call, kind, init_waits, init_returns, is_shutdown,
                 subsystem_startup_did_occur, worker_thread, halt_fulfilled,
                 wfail, histVars>>

\* ----------------------------------------------------------------- halt()
\* ContinuousSubsystem.halt: Requires.register(name + ".halt")
HaltRegister(c) ==
  /\ pc[c] = "halt_reg"
  /\ Register(HaltGate)
  /\ Goto(c, "halt_on")
  /\ UNCHANGED <<subVars, histVars>>

\* self.on_halt()
OnHalt(c) ==
  /\ pc[c] = "halt_on"
  /\ Goto(c, "halt_flag")
  /\ UNCHANGED <<regVars, call, subVars, histVars>>

\* self._is_halted = True, then Requires.target(name + ".halt") is entered.
HaltFlag(c) ==
  /\ pc[c] = "halt_flag"
  /\ is_halted' = TRUE
  /\ call' = [call EXCEPT ![c] = NewCall("target", HaltGate, TRUE)]
  /\ Goto(c, "halt_target")
  /\ UNCHANGED <<regVars, kind, init_waits, init_returns, is_shutdown,
                 subsystem_startup_did_occur, worker_thread, halt_fulfilled,
                 wfail, histVars>>

\* Requires.target returned: go on to clear_target, or the error leaves halt().
HaltTargetReturn(c) ==
  /\ pc[c] = "halt_target" /\ call[c].st = "ret"
  /\ IF call[c].ret = "True"
     THEN /\ call' = [call EXCEPT ![c] = NewCall("clear_target", HaltGate, FALSE)]
          /\ Goto(c, "halt_clear")
     ELSE /\ call' = [call EXCEPT ![c] = NoCall]
          /\ Goto(c, "idle")
  /\ UNCHANGED <<regVars, subVars, histVars>>

\* Requires.clear_target returned.
HaltClearReturn(c) ==
  /\ pc[c] = "halt_clear" /\ call[c].st = "ret"
  /\ call' = [call EXCEPT ![c] = NoCall]
  /\ Goto(c, IF call[c].ret = "None" THEN "halt_after" ELSE "idle")
  /\ UNCHANGED <<regVars, subVars, histVars>>

\* self.after_halt(); halt() returns.
AfterHalt(c) ==
  /\ pc[c] = "halt_after"
  /\ Goto(c, "idle")
  /\ quiet' = TRUE
  /\ acked' = TRUE
  /\ UNCHANGED <<regVars, call, subVars, shutdown_calls, cnt, wlog, launched,
                 pre>>

\* Utility.Subsystem.halt: the flag, then on_halt; no handshake.
UHaltFlag(c) ==
  /\ pc[c] = "uhalt_flag"
  /\ is_halted' = TRUE
  /\ Goto(c, "uhalt_on")
  /\ UNCHANGED <<regVars, call, kind, init_waits, init_returns, is_shutdown,
                 subsystem_startup_did_occur, worker_thread, halt_fulfilled,
                 wfail, histVars>>

UOnHalt(c) ==
  /\ pc[c] = "uhalt_on"
  /\ Goto(c, "idle")
  /\ UNCHANGED <<regVars, call, subVars, histVars>>

\* --------------------------------------------------------------- resume()
OnResume_clears_first(c) ==
  /\ pc[c] = "resume_on"
  /\ is_halted' = FALSE
  /\ Goto(c, "resume_flag")
  /\ UNCHANGED <<regVars, call, kind, init_waits, init_returns, is_shutdown,
                 subsystem_startup_did_occur, worker_thread, halt_fulfilled,
                 wfail, histVars>>

\* ContinuousSubsystem.resume: self.on_resume()
OnResume(c) ==
  /\ pc[c] = "resume_on"
  /\ Goto(c, "resume_flag")
  /\ UNCHANGED <<regVars, call, subVars, histVars>>

\* self._is_halted = False (in Utility.Subsystem.resume the only statement
\* with an effect: "self.on_resume" calls nothing).
ResumeFlag(c) ==
  /\ pc[c] = "resume_flag"
  /\ is_halted' = FALSE
  /\ acked' = FALSE
  /\ Goto(c, "idle")
  /\ UNCHANGED <<regVars, call, kind, init_waits, init_returns, is_shutdown,
                 subsystem_startup_did_occur, worker_thread, halt_fulfilled,
                 wfail, quiet, shutdown_calls, cnt, wlog, launched, pre>>

\* ------------------------------------------------ Requires.reach_target(net)
\* Test.py line 42: the caller reaches the gate initialize() waits on.
ReachNetReturn(c) ==
  /\ pc[c] = "reach_net" /\ call[c].st = "ret"
  /\ call' = [call EXCEPT ![c] = NoCall]
  /\ Goto(c, "idle")
  /\ UNCHANGED <<regVars, subVars, histVars>>

\* ------------------------------------------------------- the caller's calls
\* The methods the instance's class has.
Methods ==
  {"start", "shutdown", "acquire_lock"}
    \cup (IF kind = "single" THEN {} ELSE {"halt", "resume"})
    \cup (IF init_waits THEN {"reach_target"} ELSE {})

Entry(m) ==
  CASE m = "start" -> "start"
    [] m = "acquire_lock" -> "join"
    [] m = "shutdown" -> IF kind = "continuous" THEN "sd_halt"
                         ELSE IF kind = "single" THEN "sd_on" ELSE "usd_flag"
    [] m = "halt" -> IF kind = "continuous" THEN "halt_reg" ELSE "uhalt_flag"
    [] m = "resume" -> IF kind = "continuous" THEN "resume_on" ELSE "resume_flag"
    [] m = "reach_target" -> "reach_net"

\* A caller invokes one of the subsystem's methods.
Invoke(c) ==
  /\ pc[c] = "idle"
  /\ \E m \in Methods :
       /\ Goto(c, Entry(m))
       /\ call' = IF m = "reach_target"
                  THEN [call EXCEPT ![c] = NewCall("reach_target", NetGate, FALSE)]
                  ELSE call
       /\ quiet' = IF m = "resume" THEN FALSE ELSE quiet
       /\ shutdown_calls' = IF m = "shutdown" THEN Inc(shutdown_calls)
                            ELSE shutdown_calls
  /\ UNCHANGED <<regVars, subVars, cnt, wlog, launched, acked, pre>>

\* --------------------------------------------------------------- _worker
WInitialize_nowait ==
  /\ pc[Worker] = "init"
  /\ wlog' = Logged("initialize")
  /\ call' = call
  /\ Goto(Worker, "init_ret")
  /\ UNCHANGED <<regVars, subVars, quiet, shutdown_calls, cnt, launched,
                 acked, pre>>

\* self.initialize() is entered; Test.py's waits on its gate.
WInitialize ==
  /\ pc[Worker] = "init"
  /\ wlog' = Logged("initialize")
  /\ IF init_waits
     THEN /\ call' = [call EXCEPT ![Worker] = NewCall("target", NetGate, TRUE)]
          /\ Goto(Worker, "init_target")
     ELSE /\ call' = call
          /\ Goto(Worker, "init_ret")
  /\ UNCHANGED <<regVars, subVars, quiet, shutdown_calls, cnt, launched,
                 acked, pre>>

\* Requires.target returned inside initialize(); an error ends the thread.
WInitTarget ==
  /\ pc[Worker] = "init_target" /\ call[Worker].st = "ret"
  /\ call' = [call EXCEPT ![Worker] = NoCall]
  /\ IF call[Worker].ret = "True"
     THEN Goto(Worker, "init_ret") /\ wfail' = wfail
     ELSE Goto(Worker, "failed") /\ wfail' = call[Worker].ret
  /\ UNCHANGED <<regVars, kind, init_waits, init_returns, is_shutdown, is_halted,
                 subsystem_startup_did_occur, worker_thread, halt_fulfilled,
                 histVars>>

WInitReturn_ignores_result ==
  /\ pc[Worker] = "init_ret"
  /\ Goto(Worker, IF kind = "single" THEN "call_exec" ELSE "loop")
  /\ wfail' = wfail
  /\ UNCHANGED <<regVars, call, kind, init_waits, init_returns, is_shutdown,
                 is_halted, subsystem_startup_did_occur, worker_thread,
                 halt_fulfilled, histVars>>

\* "if not self.initialize(): raise SubsystemInitializationFailure"
WInitReturn ==
  /\ pc[Worker] = "init_ret"
  /\ IF init_returns
     THEN Goto(Worker, IF kind = "single" THEN "call_exec" ELSE "loop")
          /\ wfail' = wfail
     ELSE Goto(Worker, "failed") /\ wfail' = "SubsystemInitializationFailure"
  /\ UNCHANGED <<regVars, call, kind, init_waits, init_returns, is_shutdown,
                 is_halted, subsystem_startup_did_occur, worker_thread,
                 halt_fulfilled, histVars>>

\* "while not self._is_shutdown": after the loop ContinuousSubsystem calls
\* self.shutdown(); Utility.Subsystem's worker just ends.
WLoop ==
  /\ pc[Worker] = "loop"
  /\ Goto(Worker, IF ~is_shutdown THEN "chk"
                  ELSE IF kind = "continuous" THEN "sd_halt" ELSE "done")
  /\ UNCHANGED <<regVars, call, subVars, histVars>>

\* "if not self._is_halted": the read of the flag and the branches on the
\* local halt_fulfilled; Utility.Subsystem has no halt_fulfilled.
WHalted ==
  /\ pc[Worker] = "chk"
  /\ IF ~is_halted
     THEN /\ halt_fulfilled' = FALSE
          /\ call' = call
          /\ Goto(Worker, "call_exec")
     ELSE IF kind = "continuous" /\ ~halt_fulfilled
     THEN /\ halt_fulfilled' = halt_fulfilled
          /\ call' = [call EXCEPT ![Worker] =
                        NewCall("reach_target", HaltGate, FALSE)]
          /\ Goto(Worker, "reach")
     ELSE /\ halt_fulfilled' = halt_fulfilled
          /\ call' = call
          /\ Goto(Worker, "loop")
  /\ UNCHANGED <<regVars, kind, init_waits, init_returns, is_shutdown, is_halted,
                 subsystem_startup_did_occur, worker_thread, wfail, histVars>>

\* self.execute() is entered.
WExecute ==
  /\ pc[Worker] = "call_exec"
  /\ cnt' = Count("execute")
  /\ wlog' = Logged("execute")
  /\ Goto(Worker, "in_exec")
  /\ UNCHANGED <<regVars, call, subVars, quiet, shutdown_calls, launched,
                 acked, pre>>

WExecuteReturn_loops ==
  /\ pc[Worker] = "in_exec"
  /\ Goto(Worker, "loop")
  /\ UNCHANGED <<regVars, call, subVars, histVars>>

\* self.execute() returns; SingleExecutionSubsystem goes on to self.shutdown().
WExecuteReturn ==
  /\ pc[Worker] = "in_exec"
  /\ Goto(Worker, IF kind = "single" THEN "sd_on" ELSE "loop")
  /\ UNCHANGED <<regVars, call, subVars, histVars>>

WReachReturn_falls_through ==
  /\ pc[Worker] = "reach" /\ call[Worker].st = "ret"
  /\ call' = [call EXCEPT ![Worker] = NoCall]
  /\ IF call[Worker].ret = "True"
     THEN halt_fulfilled' = TRUE /\ wfail' = wfail /\ Goto(Worker, "call_exec")
     ELSE halt_fulfilled' = halt_fulfilled /\ wfail' = call[Worker].ret
          /\ Goto(Worker, "failed")
  /\ UNCHANGED <<regVars, kind, init_waits, init_returns, is_shutdown, is_halted,
                 subsystem_startup_did_occur, worker_thread, histVars>>

\* Requires.reach_target returned: halt_fulfilled = True, or the error ends
\* the thread.
WReachReturn ==
  /\ pc[Worker] = "reach" /\ call[Worker].st = "ret"
  /\ call' = [call EXCEPT ![Worker] = NoCall]
  /\ IF call[Worker].ret = "True"
     THEN halt_fulfilled' = TRUE /\ wfail' = wfail /\ Goto(Worker, "loop")
     ELSE halt_fulfilled' = halt_fulfilled /\ wfail' = call[Worker].ret
          /\ Goto(Worker, "failed")
  /\ UNCHANGED <<regVars, kind, init_waits, init_returns, is_shutdown, is_halted,
                 subsystem_startup_did_occur, worker_thread, histVars>>

\* self.after_shutdown(), the worker's last statement.
WAfterShutdown ==
  /\ pc[Worker] = "after"
  /\ cnt' = Count("after_shutdown")
  /\ wlog' = Logged("after_shutdown")
  /\ Goto(Worker, "done")
  /\ UNCHANGED <<regVars, call, subVars, quiet, shutdown_calls, launched,
                 acked, pre>>

\* A step of thread t inside Requires, nothing else touched.
Requires(t) ==
  /\ CallStep(t)
  /\ UNCHANGED <<pc, subVars, histVars>>

WorkerNext ==
  \/ WInitialize \/ WInitTarget \/ WInitReturn \/ WLoop \/ WHalted
  \/ WExecute \/ WExecuteReturn \/ WReachReturn \/ WAfterShutdown
  \/ ShutdownHalted(Worker) \/ OnShutdown(Worker) \/ ShutdownFlag(Worker)
  \/ Requires(Worker)

\* The steps of a call already under way.
CtlProgress(c) ==
  \/ StartCheck(c) \/ StartInit(c) \/ StartFlag(c) \/ StartRun(c)
  \/ StartFalse(c) \/ AcquireLock(c)
  \/ ShutdownHalted(c) \/ OnShutdown(c) \/ ShutdownFlag(c)
  \/ UShutdownFlag(c) \/ UShutdownHalted(c)
  \/ HaltRegister(c) \/ OnHalt(c) \/ HaltFlag(c) \/ HaltTargetReturn(c)
  \/ HaltClearReturn(c) \/ AfterHalt(c) \/ UHaltFlag(c) \/ UOnHalt(c)
  \/ OnResume(c) \/ ResumeFlag(c) \/ ReachNetReturn(c)
  \/ Requires(c)

InitHist ==
  /\ reach_done = {}
  /\ owed = {}
  /\ quiet = FALSE
  /\ shutdown_calls = 0
  /\ cnt = [execute |-> 0, on_shutdown |-> 0, after_shutdown |-> 0]
  /\ wlog = <<>>
  /\ launched = 0
  /\ acked = FALSE
  /\ pre = [t \in Threads |-> "none"]

\* After __init__: flags false, no thread; Test.py's __init__ registers its gate.
Init ==
  /\ kind \in Kinds
  /\ init_waits \in BOOLEAN
  /\ init_returns \in BOOLEAN
  /\ target_registry =
       IF init_waits THEN <<[id |-> 1, target_name |-> NetGate]>> ELSE <<>>
  /\ target_lock = {}
  /\ call = [t \in Threads |-> NoCall]
  /\ pc = [t \in Threads |-> IF t = Worker THEN "none" ELSE "idle"]
  /\ is_shutdown = FALSE
  /\ is_halted = FALSE
  /\ subsystem_startup_did_occur = FALSE
  /\ worker_thread = "None"
  /\ halt_fulfilled = FALSE
  /\ wfail = "none"
  /\ InitHist

Next ==
  \/ WorkerNext
  \/ \E c \in Ctl : Invoke(c) \/ CtlProgress(c)

Spec == Init /\ [][Next]_vars

\* Threads are scheduled fairly; which methods a caller invokes is up to it.
FairSpec ==
  /\ Spec
  /\ WF_vars(WorkerNext)
  /\ \A c \in Ctl : WF_vars(CtlProgress(c))

\* ------------------------------------------------ the registry on its own
\* Contexts that use Requires directly, as subsystem authors do.
\* One context only waits; the others may call anything in Requires.
UserOps(u) ==
  IF u = "u1" THEN {"target"}
  ELSE {"register", "reach_target", "clear_target", "target"}

\* The gate name the contexts use.
UserNames == {NetGate}

UserCall(u) ==
  /\ call[u].op = "none"
  /\ \E op \in UserOps(u) \ {"register"}, n \in UserNames :
       \E w \in (IF op = "target" THEN BOOLEAN ELSE {FALSE}) :
         call' = [call EXCEPT ![u] = NewCall(op, n, w)]
  /\ UNCHANGED <<regVars, pc, subVars, histVars>>

UserRegister(u) ==
  /\ call[u].op = "none"
  /\ "register" \in UserOps(u)
  /\ \E n \in UserNames : Register(n)
  /\ UNCHANGED <<pc, subVars, histVars>>

\* The call's result (a value or an exception) is back with the caller.
UserReturn(u) ==
  /\ call[u].st = "ret"
  /\ call' = [call EXCEPT ![u] = NoCall]
  /\ UNCHANGED <<regVars, pc, subVars, histVars>>

UserProgress(u) == Requires(u) \/ UserReturn(u)

\* An empty registry (Requires._target_registry = []) and no subsystem.
GateInit ==
  /\ kind = "continuous"
  /\ init_waits = FALSE
  /\ init_returns = TRUE
  /\ target_registry = <<>>
  /\ target_lock = {}
  /\ call = [t \in Threads |-> NoCall]
  /\ pc = [t \in Threads |-> IF t = Worker THEN "none" ELSE "idle"]
  /\ is_shutdown = FALSE
  /\ is_halted = FALSE
  /\ subsystem_startup_did_occur = FALSE
  /\ worker_thread = "None"
  /\ halt_fulfilled = FALSE
  /\ wfail = "none"
  /\ InitHist

GateNext == \E u \in Users : UserCall(u) \/ UserRegister(u) \/ UserProgress(u)

GateSpec == GateInit /\ [][GateNext]_vars

FairGateSpec == GateSpec /\ \A u \in Users : WF_vars(UserProgress(u))

\* --------------------------------------- one context changing the registry
\* The names in use: Test.py's gate and a subsystem's halt gate.
GateNames == {NetGate, HaltGate}

\* What a lookup of target_name finds: the first Target of that name in list
\* order (the "for tgt in cls._target_registry" of every Requires method).
Status(target_name) ==
  LET at == {k \in 1..Len(target_registry) :
               target_registry[k].target_name = target_name}
  IN  IF at = {} THEN "absent"
      ELSE IF is_reached(target_registry[Min(at)].id) THEN "reached"
      ELSE "unreached"

\* The list positions that hold a reached Target.
ReachedAt(reg, locks) == {k \in 1..Len(reg) : reg[k].id \in locks}

\* The context whose calls are sequential: it alone registers, reaches and
\* clears, so nothing changes the registry under a call of its own.
Mutator == "u2"

\* Another context only blocks in wait(n).
SeqOps(u) ==
  IF u = Mutator THEN {"register", "reach_target", "clear_target", "target"}
  ELSE IF u = "u1" THEN {"target"}
  ELSE {}

\* The names a context uses.
SeqNames(u) == IF u = Mutator THEN GateNames ELSE {NetGate}

\* The wait argument of Requires.target.
SeqWaits(u, op) ==
  IF op # "target" THEN {FALSE} ELSE IF u = Mutator THEN BOOLEAN ELSE {TRUE}

\* A call of target, reach_target or clear_target is entered.
SeqCall(u) ==
  /\ call[u].op = "none"
  /\ \E op \in SeqOps(u) \ {"register"}, n \in SeqNames(u) :
       \E w \in SeqWaits(u, op) :
         /\ call' = [call EXCEPT ![u] = NewCall(op, n, w)]
         /\ pre' = [pre EXCEPT ![u] = Status(n)]
  /\ UNCHANGED <<regVars, pc, subVars, quiet, shutdown_calls, cnt, wlog,
                 launched, acked>>

SeqRegister(u) ==
  /\ call[u].op = "none"
  /\ "register" \in SeqOps(u)
  /\ \E n \in SeqNames(u) : Register(n)
  /\ UNCHANGED <<pc, subVars, histVars>>

\* The call's result (a value or an exception) is back with the caller.
SeqReturn(u) ==
  /\ call[u].st = "ret"
  /\ call' = [call EXCEPT ![u] = NoCall]
  /\ pre' = [pre EXCEPT ![u] = "none"]
  /\ UNCHANGED <<regVars, pc, subVars, quiet, shutdown_calls, cnt, wlog,
                 launched, acked>>

SeqNext ==
  \E u \in {Mutator, "u1"} :
    SeqCall(u) \/ SeqRegister(u) \/ Requires(u) \/ SeqReturn(u)

SeqSpec == GateInit /\ [][SeqNext]_vars

\* ------------------------------------- lookups beside another name's clear
\* Two contexts use NetGate and never clear it: one registers it and waits,
\* one reaches it. A third registers and clears HaltGate, as halt() does.
PairOps(u) ==
  IF u = "u2" THEN {"register", "target"}
  ELSE IF u = "u1" THEN {"reach_target"}
  ELSE {"register", "clear_target"}

PairNames(u) == IF u = "u3" THEN {HaltGate} ELSE {NetGate}

PairCall(u) ==
  /\ call[u].op = "none"
  /\ \E op \in PairOps(u) \ {"register"}, n \in PairNames(u) :
       \E w \in (IF op = "target" THEN BOOLEAN ELSE {FALSE}) :
         /\ call' = [call EXCEPT ![u] = NewCall(op, n, w)]
         /\ pre' = [pre EXCEPT ![u] = Status(n)]
  /\ UNCHANGED <<regVars, pc, subVars, quiet, shutdown_calls, cnt, wlog,
                 launched, acked>>

PairRegister(u) ==
  /\ call[u].op = "none"
  /\ "register" \in PairOps(u)
  /\ \E n \in PairNames(u) : Register(n)
  /\ UNCHANGED <<pc, subVars, histVars>>

PairNext ==
  \E u \in Users :
    PairCall(u) \/ PairRegister(u) \/ Requires(u) \/ SeqReturn(u)

PairSpec == GateInit /\ [][PairNext]_vars

\* ------------------------------------------------------------- properties
HaltPcs == {"halt_reg", "halt_on", "halt_flag", "halt_target", "halt_clear",
            "halt_after"}
StartPcs == {"start", "start_init", "start_flag", "start_run", "start_false"}
ResumePcs == {"resume_on", "resume_flag"}
LoopPcs == {"loop", "chk", "call_exec", "in_exec", "reach"}
Ended == {"done", "failed"}

\* C1: for a ContinuousSubsystem, from the return of halt() until resume() is
\* called the worker is not inside execute() (so it enters none either).
C1_HaltQuiesces ==
  (kind = "continuous" /\ quiet) => pc[Worker] # "in_exec"

\* halt() has returned on a subsystem that had been executing; the worker
\* idles in its loop with the halt acknowledged.
C1_Witness ==
  /\ kind = "continuous" /\ quiet /\ cnt.execute > 0
  /\ pc[Worker] = "chk" /\ halt_fulfilled /\ ~is_shutdown

\* C2: every halt() of a single caller on a running, not-shut-down
\* ContinuousSubsystem eventually returns, the first one and each one that
\* follows a halt(); resume() pair.
C2_HaltReturns ==
  \A c \in Ctl :
    (kind = "continuous" /\ pc[c] \in HaltPcs /\ ~quiet /\ shutdown_calls = 0
       /\ pc[Worker] \in LoopPcs)
      ~> (pc[c] = "idle")

\* C3: once shutdown() was called on a ContinuousSubsystem whose initialize()
\* returns true, a worker that has ended ran after_shutdown exactly once, as
\* its last hook.
C3_AfterShutdownOnce ==
  (kind = "continuous" /\ init_returns /\ shutdown_calls > 0
     /\ pc[Worker] \in Ended)
    => (cnt.after_shutdown = 1 /\ wlog[Len(wlog)] = "after_shutdown")

\* C4: the worker's reach_target call never raises TargetAlreadyReachedError
\* or TargetNonExistentError.
C4_WorkerReachNeverRaises ==
  kind = "continuous"
    => wfail \notin {"TargetNonExistentError", "TargetAlreadyReachedError"}

\* C5: a blocking wait(n) leaves its block only when reach() has set the
\* gate it blocked on, and one that returns a value returns true, after a
\* reach(n) has executed.
C5_WaitersReleasedByReach ==
  /\ [](\A u \in Users :
          (call[u].op = "target" /\ call[u].wait /\ call[u].st = "ret"
             /\ call[u].ret # "TargetNonExistentError")
            => (call[u].ret = "True" /\ call[u].name \in reach_done))
  /\ [][\A u \in Users :
          (call[u].st = "blocked" /\ call'[u].st = "ret")
            => is_reached(call[u].cur)]_vars

\* reach(n) has just run while two contexts were blocked in wait(n): both
\* are still in their block, on the gate that is now set.
C5_Witness ==
  \E u, v \in Users :
    /\ u # v
    /\ {u, v} \subseteq owed
    /\ \A t \in {u, v} : call[t].st = "blocked" /\ is_reached(call[t].cur)
    /\ NetGate \in reach_done

\* C6: a context blocked in wait(n) when reach(n) succeeds is eventually
\* released (and then returns true).
C6_NoLostWakeup ==
  \A u \in Users : (u \in owed) ~> (u \notin owed)

\* C7: with an initialize() that waits on gate g and returns true, no
\* execute() begins before reach(g), and after reach(g) a started worker
\* begins execute() unless the subsystem is halted or shut down first.
C7_ReadinessGating ==
  /\ [](init_waits /\ cnt.execute > 0 => NetGate \in reach_done)
  /\ (init_waits /\ init_returns /\ pc[Worker] # "none"
        /\ NetGate \in reach_done)
       ~> (cnt.execute > 0 \/ is_halted \/ is_shutdown)

\* The worker executes after the gate its initialize() waited on was reached.
C7_Witness ==
  /\ init_waits /\ pc[Worker] = "in_exec" /\ NetGate \in reach_done
  /\ ~is_halted /\ ~is_shutdown /\ kind # "single"

\* C8: a started SingleExecutionSubsystem whose initialize() returns true
\* runs initialize, execute (once), on_shutdown, after_shutdown on its worker,
\* ends shut down, and acquire_lock() then returns.
C8_OneShot ==
  /\ [](kind = "single" /\ pc[Worker] = "done"
          => /\ cnt.execute = 1 /\ is_shutdown
             /\ wlog = <<"initialize", "execute", "on_shutdown",
                         "after_shutdown">>)
  /\ (kind = "single" /\ init_returns /\ pc[Worker] # "none"
        /\ (init_waits => NetGate \in reach_done))
       ~> (pc[Worker] = "done" /\ is_shutdown)
  /\ \A c \in Ctl :
       (kind = "single" /\ init_returns /\ pc[c] = "join"
          /\ (init_waits => NetGate \in reach_done))
         ~> (pc[c] = "idle")

\* The one-shot worker is done, shut down by itself alone, and the caller's
\* acquire_lock() is free to return.
C8_Witness ==
  /\ kind = "single" /\ pc[Worker] = "done" /\ cnt.execute = 1
  /\ shutdown_calls = 0 /\ is_shutdown /\ Len(wlog) = 4
  /\ \E c \in Ctl : pc[c] = "join"

\* C9: after shutdown() was called on a ContinuousSubsystem, no step of a
\* later start(), halt() or resume() launches a worker or changes the halted
\* or shutdown flag.
C9_RejectedAfterShutdown ==
  [][\A c \in Ctl :
       (kind = "continuous" /\ shutdown_calls > 0
          /\ pc[c] \in StartPcs \cup HaltPcs \cup ResumePcs
          /\ pc'[c] # pc[c])
         => (is_halted' = is_halted /\ is_shutdown' = is_shutdown
               /\ launched' = launched)]_vars

\* C10: at most one worker is ever launched: a start() gets past its test
\* only while none was launched, and one that returns False follows a launch.
C10_SingleWorker ==
  /\ launched <= 1
  /\ \A c \in Ctl :
       /\ pc[c] \in {"start_init", "start_flag", "start_run"} => launched = 0
       /\ pc[c] = "start_false" => launched = 1

\* A second start() is about to return False.
C10_Witness ==
  launched = 1 /\ \E c \in Ctl : pc[c] = "start_false"

\* C11: when resume() is called on a ContinuousSubsystem whose halt() has
\* returned, the worker neither is in execute() nor has chosen to call it
\* while resume() is in on_resume or about to clear the halted flag.
C11_OnResumeBeforeExecute ==
  \A c \in Ctl :
    (kind = "continuous" /\ acked /\ pc[c] \in ResumePcs)
      => pc[Worker] \notin {"call_exec", "in_exec"}

\* on_resume has returned after a halt() of a subsystem that had executed;
\* the worker still idles in its loop.
C11_Witness ==
  /\ kind = "continuous" /\ acked /\ cnt.execute > 0 /\ ~is_shutdown
  /\ pc[Worker] \in {"loop", "chk"} /\ halt_fulfilled
  /\ \E c \in Ctl : pc[c] = "resume_flag"

\* C12: for ContinuousSubsystem and SingleExecutionSubsystem, when
\* initialize() returns false the worker ends with
\* SubsystemInitializationFailure: it runs no execute, on_shutdown or
\* after_shutdown, never enters shutdown(), and does end.
C12_InitFailureEndsWorker ==
  /\ []((kind \in {"continuous", "single"} /\ ~init_returns)
          => /\ cnt.execute = 0 /\ cnt.after_shutdown = 0
             /\ wlog \in {<<>>, <<"initialize">>}
             /\ pc[Worker] \in {"none", "init", "init_target", "init_ret",
                                "failed"}
             /\ (pc[Worker] = "failed"
                   => wfail = "SubsystemInitializationFailure"))
  /\ (kind \in {"continuous", "single"} /\ ~init_returns
        /\ pc[Worker] = "init_ret")
       ~> (pc[Worker] = "failed")

\* The worker has failed in initialize(); the shutdown flag was then set by
\* the caller's own shutdown(), whose on_shutdown is the only one that ran.
C12_Witness ==
  /\ kind \in {"continuous", "single"} /\ ~init_returns
  /\ pc[Worker] = "failed" /\ wfail = "SubsystemInitializationFailure"
  /\ is_shutdown /\ cnt.on_shutdown = 1 /\ wlog = <<"initialize">>

\* C13: the registry never holds two gates with the same name (register
\* refuses a name that is already present).
C13_UniqueNames ==
  \A j, k \in 1..Len(target_registry) :
    j # k => target_registry[j].target_name # target_registry[k].target_name

\* C14: a reach(n) issued when the gate n is reached fails with
\* TargetAlreadyReachedError and leaves it reached, a reach(n) that succeeds
\* found the gate unreached, and no step turns a reached gate of the registry
\* back to unreached (the gates keep their list order; a clear takes one out).
C14_ReachedAtMostOnce ==
  /\ []((call[Mutator].op = "reach_target" /\ call[Mutator].st = "ret")
          => /\ pre[Mutator] = "reached"
                  => /\ call[Mutator].ret = "TargetAlreadyReachedError"
                     /\ Status(call[Mutator].name) = "reached"
             /\ call[Mutator].ret = "True" => pre[Mutator] = "unreached")
  /\ [][LET n == Len(target_registry)
            m == Len(target_registry')
        IN  /\ m >= n => \A k \in 1..n : is_reached(k) => k \in target_lock'
            /\ m < n => \E k \in 1..n : \A j \in 1..m :
                          is_reached(IF j < k THEN j ELSE j + 1)
                            => j \in target_lock']_vars

\* A second reach(n) has failed on a gate that is still reached and still
\* in the registry.
C14_Witness ==
  /\ call[Mutator].op = "reach_target" /\ call[Mutator].st = "ret"
  /\ pre[Mutator] = "reached"
  /\ call[Mutator].ret = "TargetAlreadyReachedError"
  /\ call[Mutator].name \in reach_done
  /\ Status(call[Mutator].name) = "reached"

\* C15: a wait(n), blocking or not, and a reach(n) issued while no gate named
\* n is in the registry raise TargetNonExistentError, never block or reach
\* anything, and leave the registry and its gates as they were.
C15_AbsentNameRaises ==
  /\ []((call[Mutator].op \in {"target", "reach_target"}
           /\ pre[Mutator] = "absent")
          => /\ call[Mutator].st \in {"iter", "ret"}
             /\ call[Mutator].st = "ret"
                  => call[Mutator].ret = "TargetNonExistentError")
  /\ [][(call[Mutator].op \in {"target", "reach_target"}
           /\ pre[Mutator] = "absent")
          => (target_registry' = target_registry
                /\ ReachedAt(target_registry', target_lock')
                     = ReachedAt(target_registry, target_lock))]_vars

\* A blocking wait on a name the registry does not hold, beside a gate of
\* another name, has raised.
C15_Witness ==
  /\ call[Mutator].op = "target" /\ call[Mutator].wait
  /\ pre[Mutator] = "absent" /\ call[Mutator].st = "ret"
  /\ call[Mutator].ret = "TargetNonExistentError"
  /\ target_registry # <<>>

\* C16: wait(n, block=false) on a registered gate never blocks; it returns
\* False when issued while the gate is unreached and True when issued after
\* the gate was reached.
C16_NonBlockingWait ==
  (call[Mutator].op = "target" /\ ~call[Mutator].wait
     /\ pre[Mutator] # "absent")
    => /\ call[Mutator].st # "blocked"
       /\ call[Mutator].st = "ret"
            => call[Mutator].ret
                 = (IF pre[Mutator] = "reached" THEN "True" ELSE "False")

\* A non-blocking wait issued after reach(n) has returned True.
C16_Witness ==
  /\ call[Mutator].op = "target" /\ ~call[Mutator].wait
  /\ call[Mutator].st = "ret" /\ call[Mutator].ret = "True"
  /\ pre[Mutator] = "reached" /\ call[Mutator].name \in reach_done

\* C17: after clear(name) has returned, the registry holds no gate named
\* name, whatever it held before (several gates of that name included).
C17_ClearRemovesAll ==
  (call[Mutator].op = "clear_target" /\ call[Mutator].st = "ret"
     /\ call[Mutator].ret = "None")
    => Status(call[Mutator].name) = "absent"

\* C18: clear(n) issued while no gate named n is in the registry raises
\* TargetNonExistentError.
C18_ClearAbsentRaises ==
  (call[Mutator].op = "clear_target" /\ call[Mutator].st = "ret"
     /\ pre[Mutator] = "absent")
    => call[Mutator].ret = "TargetNonExistentError"

\* C19: a wait(n) or reach(n) issued while n is registered, with n never
\* cleared, does not raise TargetNonExistentError, whatever another context
\* registers or clears under a different name meanwhile.
C19_LookupsSerialized ==
  \A u \in {"u1", "u2"} :
    (call[u].op \in {"target", "reach_target"} /\ call[u].name = NetGate
       /\ pre[u] # "absent" /\ call[u].st = "ret")
      => call[u].ret # "TargetNonExistentError"

\* C20: when shutdown() is called once on a ContinuousSubsystem whose worker
\* has been executing, on_shutdown runs no more than once, counting the
\* caller's context and the worker's exit sequence, has run exactly once when
\* the worker is done, and runs before after_shutdown.
C20_ShutdownOnce ==
  (kind = "continuous" /\ shutdown_calls = 1 /\ cnt.execute > 0)
    => /\ cnt.on_shutdown <= 1
       /\ cnt.after_shutdown > 0 => cnt.on_shutdown > 0
       /\ pc[Worker] = "done" => cnt.on_shutdown = 1

====
